---- MODULE Spec2Model ----
(***************************************************************************)
(* Diary record lifecycle of the AI diary backend: the dual-write record   *)
(* store (local JSON file per owner + remote "diaries" table), the daily   *)
(* quota gate, the in-memory chat history of the conversational AI service *)
(* and the HTTP handlers that compose them.  Every handler is one atomic   *)
(* action; every remote-store call inside a handler succeeds or fails      *)
(* independently (the booleans named ok...).                               *)
(***************************************************************************)
EXTENDS Integers, Sequences, FiniteSets, TLC

VARIABLES local, remote, sessions, issued, resp, budget, inflight, music

vars == <<local, remote, sessions, issued, resp, budget, inflight, music>>

(***************************************************************************)
(* Bounds of the model.                                                    *)
(***************************************************************************)
MaxSeq == 3      \* session ids that can be generated per date
MaxRequests == 3 \* writing requests explored per behaviour of Spec
MaxQuotaRequests == 6 \* writing requests explored per behaviour of SpecQuota
MaxConv == 3     \* longest stored transcript on which chat is still explored
MaxHist == 4     \* longest in-memory history on which chat is still explored
MaxImages == 2   \* longest image gallery on which image/generate is explored
MaxListRequests == 4  \* writing requests explored per behaviour of SpecList
MaxReplies == 1  \* answers computed per behaviour of SpecComplete
MaxAuthRequests == 1 \* writing requests explored per behaviour of SpecAuth
MaxTags == 3     \* most emotion tags of a record in SpecPrompt
MaxPrompts == 1  \* prompts computed per behaviour of SpecPrompt
MaxPad == 1      \* longest text put before and after a phrase in SpecComplete
MaxMediaRequests == 5 \* writing requests explored per behaviour of SpecMedia
MaxLoadRequests == 2 \* bgm/generate requests that arrive per behaviour of SpecLoad
MaxSessionRequests == 3 \* writing requests explored per behaviour of SpecSession
MaxInflight == 3 \* chat requests that arrive per behaviour of SpecConc

Owners == {"A", "B"}
Today == 1
Dates == {1, 2}
Ids == Dates \X (1..MaxSeq)

Null == "NULL"
None == [none |-> TRUE]

QuotaLimit == 2
DefaultStyle == "watercolor"
StartPrompt == "start"
Greeting == "hello"
UserMessages == {"msg"}
Replies == {"reply"}
ImageFile == "image.png"
BgmFile == "bgm.wav"

\* Python truthiness of an Optional[str]
Truthy(x) == x # Null /\ x # ""

IsPrefix(s, t) == Len(s) <= Len(t) /\ SubSeq(t, 1, Len(s)) = s

\* The date a session id encodes: diary_<YYYYMMDD>_<HHMMSS>_<hex>
IdDate(id) == id[1]

\* datetime.now(): the day is Today throughout; the time of day advances with
\* every session id that is generated, so that later sessions get later times
Now == [day |-> Today, tod |-> Cardinality(issued) + 1]
Midnight(d) == [day |-> d, tod |-> 0]

ChatMessage(role, content) == [role |-> role, content |-> content]

\* DiaryEntry(id=session_id, created_at=date or now, conversation=[])
\* origin is a history field: the owner whose request constructed the entry.
DiaryEntry(id, created_at, u) ==
    [id |-> id, created_at |-> created_at, conversation |-> <<>>,
     summary |-> Null, emotion_tags |-> <<>>, image_prompt |-> Null,
     image_paths |-> <<>>, selected_image_index |-> 0,
     bgm_prompt |-> Null, bgm_path |-> Null, style |-> DefaultStyle,
     origin |-> u]

\* record = diary.model_dump(mode="json"); record['user_id'] = user_id
Row(d, u) == [user_id |-> u, entry |-> d]

Store(l, r, s) == [loc |-> l, rem |-> r, ses |-> s]

\* client.table("diaries").upsert(record): the table's primary key is id alone
Upsert(st, d, u, ok) ==
    IF ok THEN [st EXCEPT !.rem[d.id] = Row(d, u)] ELSE st

\* variant of RemoteSelect that drops the user_id filter of the query
RemoteSelect_NoOwnerFilter(st, id, u) ==
    IF st.rem[id] # None THEN st.rem[id].entry ELSE None

\* select * where id = diary_id and user_id = user_id
RemoteSelect(st, id, u) ==
    IF st.rem[id] # None /\ st.rem[id].user_id = u THEN st.rem[id].entry ELSE None

\* variant of GetDiary without the local fallback
GetDiary_RemoteOnly(st, id, u, ok) ==
    IF ok /\ RemoteSelect(st, id, u) # None
    THEN RemoteSelect(st, id, u)
    ELSE None

\* get_diary: the remote row of (id, user_id) if the query answers one, else
\* the local file of the owner, else None
GetDiary(st, id, u, ok) ==
    IF ok /\ RemoteSelect(st, id, u) # None
    THEN RemoteSelect(st, id, u)
    ELSE st.loc[u][id]

\* variant of SaveDiary that writes the local file after the remote upsert
\* has succeeded
SaveDiary_RemoteFirst(st, d, u, ok) ==
    IF ok THEN Upsert([st EXCEPT !.loc[u][d.id] = d], d, u, ok) ELSE st

\* save_diary: the local file always, then the remote upsert, whose failure
\* is swallowed
SaveDiary(st, d, u, ok) ==
    Upsert([st EXCEPT !.loc[u][d.id] = d], d, u, ok)

\* create_diary: upsert of the fresh entry, then save_diary; returns the store
CreateDiary(st, id, u, created_at, ok1, ok2) ==
    SaveDiary(Upsert(st, DiaryEntry(id, created_at, u), u, ok1),
              DiaryEntry(id, created_at, u), u, ok2)

\* variant of UpdateConversation that appends the turn without saving it
UpdateConversation_Unsaved(st, id, u, role, content, created_at, oks) ==
    LET found == GetDiary(st, id, u, oks[1])
    IN IF found = None
       THEN CreateDiary(st, id, u, created_at, oks[2], oks[3])
       ELSE st

\* update_conversation(diary_id, user_id, role, content, timestamp)
\* oks = <<get, create upsert, create save, save>>
UpdateConversation(st, id, u, role, content, created_at, oks) ==
    LET found == GetDiary(st, id, u, oks[1])
        st1 == IF found = None
               THEN CreateDiary(st, id, u, created_at, oks[2], oks[3])
               ELSE st
        diary == IF found = None THEN DiaryEntry(id, created_at, u) ELSE found
        diary2 == [diary EXCEPT !.conversation =
                       Append(@, ChatMessage(role, content))]
    IN SaveDiary(st1, diary2, u, oks[4])

\* update_summary(diary_id, user_id, summary, emotion_tags, image_prompt)
UpdateSummarySvc(st, id, u, summary, tags, image_prompt, okGet, okSave) ==
    LET diary == GetDiary(st, id, u, okGet)
    IN IF diary = None THEN st
       ELSE SaveDiary(st, [diary EXCEPT !.summary = summary,
                                        !.emotion_tags = tags,
                                        !.image_prompt = image_prompt],
                      u, okSave)

\* the copy get_diary reads: the remote row when the query answers one
ReadSource(st, id, u, ok) ==
    IF ok /\ RemoteSelect(st, id, u) # None THEN "remote" ELSE "local"

\* variant of AddImagePath that leaves selected_image_index alone
AddImagePath_KeepsSelection(st, id, u, path, okGet, okSave) ==
    LET diary == GetDiary(st, id, u, okGet)
    IN IF diary = None THEN st
       ELSE SaveDiary(st, [diary EXCEPT !.image_paths = Append(@, path)], u, okSave)

\* add_image_path; the caller dereferences the result, None is an error there
AddImagePath(st, id, u, path, okGet, okSave) ==
    LET diary == GetDiary(st, id, u, okGet)
    IN IF diary = None THEN st
       ELSE SaveDiary(st, [diary EXCEPT !.image_paths = Append(@, path),
                                        !.selected_image_index = Len(diary.image_paths)],
                      u, okSave)

\* the entry add_image_path returns
AddImageResult(st, id, u, path, okGet) ==
    LET diary == GetDiary(st, id, u, okGet)
    IN IF diary = None THEN None
       ELSE [diary EXCEPT !.image_paths = Append(@, path),
                          !.selected_image_index = Len(diary.image_paths)]

\* variant of SelectImageSvc whose range check admits index = len(image_paths)
SelectImageSvc_AdmitsLen(st, id, u, idx, okGet, okSave) ==
    LET diary == GetDiary(st, id, u, okGet)
    IN IF diary = None THEN st
       ELSE IF 0 <= idx /\ idx <= Len(diary.image_paths)
            THEN SaveDiary(st, [diary EXCEPT !.selected_image_index = idx], u, okSave)
            ELSE st

\* select_image: the entry is saved only when the index is in range
SelectImageSvc(st, id, u, idx, okGet, okSave) ==
    LET diary == GetDiary(st, id, u, okGet)
    IN IF diary = None THEN st
       ELSE IF 0 <= idx /\ idx < Len(diary.image_paths)
            THEN SaveDiary(st, [diary EXCEPT !.selected_image_index = idx], u, okSave)
            ELSE st

\* variant of SelectImageResult that answers the requested index unchecked
SelectImageResult_Unchecked(st, id, u, idx, okGet) ==
    LET diary == GetDiary(st, id, u, okGet)
    IN IF diary = None THEN None
       ELSE [diary EXCEPT !.selected_image_index = idx]

\* the entry select_image returns
SelectImageResult(st, id, u, idx, okGet) ==
    LET diary == GetDiary(st, id, u, okGet)
    IN IF diary = None THEN None
       ELSE IF 0 <= idx /\ idx < Len(diary.image_paths)
            THEN [diary EXCEPT !.selected_image_index = idx]
            ELSE diary

UpdateBgmPath(st, id, u, path, okGet, okSave) ==
    LET diary == GetDiary(st, id, u, okGet)
    IN IF diary = None THEN st
       ELSE SaveDiary(st, [diary EXCEPT !.bgm_path = path], u, okSave)

\* list_diaries, remote query: user_id = owner, summary is not null
RemoteList(st, u) ==
    {id \in Ids : st.rem[id] # None /\ st.rem[id].user_id = u
                  /\ st.rem[id].entry.summary # Null}

\* list_diaries, local scan: files of the owner's directory with a truthy summary
LocalList(st, u) ==
    {id \in Ids : st.loc[u][id] # None /\ Truthy(st.loc[u][id].summary)}

\* the stored copy from which the list item of id is built on each path
ListItemSource(st, u, id, ok) ==
    IF ok /\ RemoteList(st, u) # {} THEN st.rem[id].entry ELSE st.loc[u][id]

\* the remote answer is used only when it is non-empty
ListDiaries(st, u, ok) ==
    IF ok /\ RemoteList(st, u) # {} THEN RemoteList(st, u) ELSE LocalList(st, u)

\* a >= b on datetimes
NotBefore(a, b) == a.day > b.day \/ (a.day = b.day /\ a.tod >= b.tod)

\* a > b on the file names diary_<YYYYMMDD>_<HHMMSS>_<hex>.json
PathAfter(a, b) == a[1] > b[1] \/ (a[1] = b[1] /\ a[2] > b[2])

Orderings(S) ==
    {s \in [1..Cardinality(S) -> S] : \A i, j \in 1..Cardinality(S) : i # j => s[i] # s[j]}

\* .order("created_at", desc=True): rows of equal created_at come in any order
RemoteOrders(st, u) ==
    {s \in Orderings(RemoteList(st, u)) :
        \A i, j \in 1..Len(s) :
            i < j => NotBefore(st.rem[s[i]].entry.created_at,
                               st.rem[s[j]].entry.created_at)}

\* sorted(user_dir.glob("*.json"), reverse=True): descending file names
LocalOrders(st, u) ==
    {s \in Orderings(LocalList(st, u)) :
        \A i, j \in 1..Len(s) : i < j => PathAfter(s[i], s[j])}

\* the item sequences list_diaries can return
ListOrders(st, u, ok) ==
    IF ok /\ RemoteList(st, u) # {} THEN RemoteOrders(st, u) ELSE LocalOrders(st, u)

\* variant of DeleteDiarySvc whose remote delete filters on the id alone
DeleteDiarySvc_NoOwnerFilter(st, id, u, ok) ==
    LET st1 == [st EXCEPT !.loc[u][id] = None]
    IN IF ok THEN [st1 EXCEPT !.rem[id] = None] ELSE st1

\* delete_diary: unlink the local file, delete the remote row of (id, user_id)
DeleteDiarySvc(st, id, u, ok) ==
    LET st1 == [st EXCEPT !.loc[u][id] = None]
    IN IF ok /\ RemoteSelect(st, id, u) # None
       THEN [st1 EXCEPT !.rem[id] = None]
       ELSE st1

DeleteDiaryResult(st, id, u) == st.loc[u][id] # None

\* variant of CountDiariesByDate that counts the files without reading the summary
CountDiariesByDate_CountsInProgress(st, u, date) ==
    Cardinality({id \in Ids : IdDate(id) = date /\ st.loc[u][id] # None})

\* count_diaries_by_date: local files diary_<date>_* with a truthy summary
CountDiariesByDate(st, u, date) ==
    Cardinality({id \in Ids : /\ IdDate(id) = date
                              /\ st.loc[u][id] # None
                              /\ Truthy(st.loc[u][id].summary)})


(***************************************************************************)
(* Conversational AI service: in-memory histories keyed by session id.     *)
(* An absent key and an empty history coincide between handlers, because   *)
(* both users of get_or_create_session append to the history at once.      *)
(***************************************************************************)
GetOrCreateSession(st, sid, u, okGet) ==
    IF st.ses[sid] # <<>> THEN st.ses[sid]
    ELSE LET diary == GetDiary(st, sid, u, okGet)
         IN IF diary # None /\ diary.conversation # <<>>
            THEN [i \in 1..Len(diary.conversation) |->
                     ChatMessage(IF diary.conversation[i].role = "model"
                                 THEN "model" ELSE "user",
                                 diary.conversation[i].content)]
            ELSE <<>>

\* history sent to the model by chat / get_initial_greeting
ContextFor(st, sid, u, text, okGet) ==
    Append(GetOrCreateSession(st, sid, u, okGet), ChatMessage("user", text))

\* history kept after the call; the user turn stays when the model call raises
AfterModelCall(st, sid, u, text, okGet, aiOk, reply) ==
    [st EXCEPT !.ses[sid] =
        IF aiOk THEN Append(ContextFor(st, sid, u, text, okGet),
                            ChatMessage("model", reply))
        ELSE ContextFor(st, sid, u, text, okGet)]

\* Texts are sequences of syllables.  The end commands of chat and the two
\* phrases by which the assistant proposes to wrap up (romanised).
EndKeywords ==
    {<<"geu", "man">>, <<"yeo", "gi", "kka", "ji">>, <<"kkeut">>,
     <<"jong", "ryo">>, <<"ma", "mu", "ri">>}

SummarisePhrase == <<"jeong", "ri", "hae", "deu", "ril", "kka", "yo">>
WrapUpPhrase == <<"ma", "mu", "ri", "hal", "kka", "yo">>

\* Python's `needle in text` on strings
Contains(needle, text) ==
    \E i \in 0..(Len(text) - Len(needle)) :
        SubSeq(text, i + 1, i + Len(needle)) = needle

\* variant of IsComplete that looks for the first phrase only
IsComplete_OnePhrase(user_message, response_text) ==
    \/ \E keyword \in EndKeywords : Contains(keyword, user_message)
    \/ Contains(SummarisePhrase, response_text)

\* is_complete = is_ending or "..." in response_text or "..." in response_text
IsComplete(user_message, response_text) ==
    \/ \E keyword \in EndKeywords : Contains(keyword, user_message)
    \/ Contains(SummarisePhrase, response_text)
    \/ Contains(WrapUpPhrase, response_text)

\* generate_summary(session_id): None when the session has no history
HasHistory(st, sid) == st.ses[sid] # <<>>

\* outputs of the summarising call: a decoded JSON answer, or the degraded
\* answer built when decoding fails (no bgm_prompt key)
SummaryOutputs ==
    {[summary |-> "sum", emotion_tags |-> <<"joy">>, image_prompt |-> "scene",
      bgm_prompt |-> "calm"],
     [summary |-> "raw", emotion_tags |-> <<>>, image_prompt |-> "",
      bgm_prompt |-> Null]}

(***************************************************************************)
(* State, responses                                                        *)
(***************************************************************************)
NoId == <<0, 0>>

\* what the caller receives: the HTTP status and the part of the body that
\* tells the outcomes of one handler apart
Response(op, u, id, date, status, body) ==
    [op |-> op, user |-> u, id |-> id, date |-> date, status |-> status,
     body |-> body]

\* answers of the image handlers: source names the copy the handler read,
\* d is the entry whose gallery fields the body reports
MediaResponse(op, u, id, status, body, source, index, d) ==
    [op |-> op, user |-> u, id |-> id, date |-> 0, status |-> status,
     body |-> body, source |-> source, image_index |-> index,
     selected_image_index |-> d.selected_image_index,
     image_paths |-> d.image_paths]

Cur == Store(local, remote, sessions)

\* every request that changes a store or the in-memory histories uses up one
\* unit of the exploration budget; requests that change nothing are free
\* requests handled one at a time leave the requests in flight and the music
\* model of the process as they are
Idle == UNCHANGED <<inflight, music>>

Spend == budget > 0 /\ budget' = budget - 1 /\ Idle

Free == UNCHANGED budget /\ Idle

Quiet == UNCHANGED <<local, remote, sessions>> /\ Free

Commit(st) ==
    /\ local' = st.loc
    /\ remote' = st.rem
    /\ sessions' = st.ses
    /\ IF st = Cur THEN Free ELSE Spend

\* MusicService.__init__: no model, no processor; loads counts the runs of
\* the loading branch of _load_model and completed those that reached its end
MusicService ==
    [model |-> FALSE, processor |-> FALSE, loads |-> 0, completed |-> 0,
     started |-> FALSE]

InitStores ==
    /\ local = [u \in Owners |-> [id \in Ids |-> None]]
    /\ remote = [id \in Ids |-> None]
    /\ sessions = [id \in Ids |-> <<>>]
    /\ issued = {}
    /\ resp = Response("init", "A", NoId, 0, 200, "ok")
    /\ inflight = <<>>
    /\ music = MusicService

Init == InitStores /\ budget = MaxRequests

InitQuota == InitStores /\ budget = MaxQuotaRequests

InitList == InitStores /\ budget = MaxListRequests

InitMedia == InitStores /\ budget = MaxMediaRequests

InitComplete == InitStores /\ budget = MaxReplies

InitAuth == InitStores /\ budget = MaxAuthRequests

InitPrompt == InitStores /\ budget = MaxPrompts

(***************************************************************************)
(* POST /api/session/start                                                 *)
(***************************************************************************)
StartRequests ==
    {[kind |-> "none", d |-> Today], [kind |-> "bad", d |-> Today]}
    \cup {[kind |-> "date", d |-> d] : d \in Dates}

\* generate_session_id: the time-of-day and the six random hex digits are taken
\* to give an id that was never generated before and that no store holds;
\* ids of one date are handed out in the order of their second component
FreshIds(date) ==
    {id \in Ids : /\ IdDate(id) = date
                  /\ id \notin issued
                  /\ remote[id] = None
                  /\ \A u \in Owners : local[u][id] = None}

GenerateSessionId(date) ==
    {id \in FreshIds(date) : \A other \in FreshIds(date) : id[2] <= other[2]}

StartCreatedAt(req) == IF req.kind = "date" THEN Midnight(req.d) ELSE Now

StartSession(u, req, sid, oks, aiOk) ==
    /\ IF req.kind = "bad"
           THEN /\ resp' = Response("start", u, NoId, 0, 400, "invalid date")
                /\ UNCHANGED issued /\ Quiet
           ELSE IF CountDiariesByDate(Cur, u, req.d) >= QuotaLimit
           THEN /\ resp' = Response("start", u, NoId, req.d, 400, "quota")
                /\ UNCHANGED issued /\ Quiet
           ELSE /\ sid \in GenerateSessionId(req.d)
                /\ LET st1 == CreateDiary(Cur, sid, u, StartCreatedAt(req), oks[1], oks[2])
                       st2 == AfterModelCall(st1, sid, u, StartPrompt, oks[3], aiOk, Greeting)
                       st3 == UpdateConversation(st2, sid, u, "model", Greeting,
                                                 StartCreatedAt(req),
                                                 <<oks[4], TRUE, TRUE, oks[5]>>)
                   IN /\ issued' = issued \cup {sid}
                      /\ IF aiOk
                         THEN /\ Commit(st3)
                              /\ resp' = Response("start", u, sid, req.d, 200, "ok")
                         ELSE /\ Commit(st2)
                              /\ resp' = Response("start", u, sid, req.d, 500, "error")

(***************************************************************************)
(* POST /api/chat                                                          *)
(***************************************************************************)
ChatBounded(sid) ==
    /\ Len(sessions[sid]) + 2 <= MaxHist
    /\ remote[sid] # None => Len(remote[sid].entry.conversation) + 2 <= MaxConv
    /\ \A u \in Owners :
          local[u][sid] # None => Len(local[u][sid].conversation) + 2 <= MaxConv

Chat(u, sid, msg, oks, aiOk, reply) ==
    /\ ChatBounded(sid)
    /\ LET st1 == UpdateConversation(Cur, sid, u, "user", msg, Now,
                                     <<oks[1], oks[2], oks[3], oks[4]>>)
           st2 == AfterModelCall(st1, sid, u, msg, oks[5], aiOk, reply)
           st3 == UpdateConversation(st2, sid, u, "model", reply, Now,
                                     <<oks[6], TRUE, TRUE, oks[7]>>)
       IN IF aiOk
          THEN /\ Commit(st3)
               /\ resp' = Response("chat", u, sid, 0, 200, "ok")
          ELSE /\ Commit(st2)
               /\ resp' = Response("chat", u, sid, 0, 500, "error")
    /\ UNCHANGED issued

(***************************************************************************)
(* POST /api/session/end                                                   *)
(***************************************************************************)
\* oks = <<update_summary get, its save, get, save of bgm_prompt>>
EndSessionStore(st, sid, u, out, oks) ==
    LET st1 == UpdateSummarySvc(st, sid, u, out.summary, out.emotion_tags,
                                out.image_prompt, oks[1], oks[2])
        diary == GetDiary(st1, sid, u, oks[3])
    IN IF diary # None /\ Truthy(out.bgm_prompt)
       THEN SaveDiary(st1, [diary EXCEPT !.bgm_prompt = out.bgm_prompt], u, oks[4])
       ELSE st1

EndSession(u, sid, out, oks, aiOk) ==
    /\ IF ~HasHistory(Cur, sid)
       THEN /\ resp' = Response("end", u, sid, 0, 200, "null summary")
            /\ Quiet
       ELSE IF ~aiOk
       THEN /\ resp' = Response("end", u, sid, 0, 500, "error")
            /\ Quiet
       ELSE LET st1 == EndSessionStore(Cur, sid, u, out, oks)
            IN /\ Commit(st1)
               /\ resp' = Response("end", u, sid, 0, 200, "ok")
    /\ UNCHANGED issued

(***************************************************************************)
(* POST /api/summary/update                                                *)
(***************************************************************************)
UpdateSummary(u, sid, new_summary, regen, okGet, okSave, aiOk) ==
    /\ LET diary == GetDiary(Cur, sid, u, okGet)
       IN IF diary = None
          THEN /\ resp' = Response("summary_update", u, sid, 0, 404, "not found")
               /\ Quiet
          ELSE IF ~aiOk
          THEN /\ resp' = Response("summary_update", u, sid, 0, 500, "error")
               /\ Quiet
          ELSE LET diary2 == [diary EXCEPT !.summary = new_summary,
                                           !.emotion_tags = regen.emotion_tags,
                                           !.image_prompt = regen.image_prompt,
                                           !.bgm_prompt = regen.bgm_prompt]
               IN /\ Commit(SaveDiary(Cur, diary2, u, okSave))
                  /\ resp' = Response("summary_update", u, sid, 0, 200, "ok")
    /\ UNCHANGED issued

(***************************************************************************)
(* POST /api/image/generate, POST /api/image/select, POST /api/bgm/generate*)
(***************************************************************************)
\* the store after image/generate has called the image collaborator
GenerateImageStore_WritesOnFailure(st, sid, u, imgOk, okGet2, okSave) ==
    AddImagePath(st, sid, u, ImageFile, okGet2, okSave)

GenerateImageStore(st, sid, u, imgOk, okGet2, okSave) ==
    IF imgOk THEN AddImagePath(st, sid, u, ImageFile, okGet2, okSave) ELSE st

GenerateImage(u, sid, okGet, okGet2, okSave, imgOk) ==
    /\ LET diary == GetDiary(Cur, sid, u, okGet)
       IN IF diary = None
          THEN /\ resp' = Response("image_generate", u, sid, 0, 404, "not found")
               /\ Quiet
          ELSE IF ~Truthy(diary.image_prompt)
          THEN /\ resp' = Response("image_generate", u, sid, 0, 400, "no image prompt")
               /\ Quiet
          ELSE IF ~imgOk
          THEN /\ resp' = Response("image_generate", u, sid, 0, 200, "success false")
               /\ Commit(GenerateImageStore(Cur, sid, u, imgOk, okGet2, okSave))
          ELSE /\ Len(diary.image_paths) < MaxImages
               /\ GetDiary(Cur, sid, u, okGet2) # None
                  => Len(GetDiary(Cur, sid, u, okGet2).image_paths) < MaxImages
               /\ IF GetDiary(Cur, sid, u, okGet2) = None
                  THEN /\ resp' = Response("image_generate", u, sid, 0, 500, "error")
                       /\ Quiet
                  ELSE /\ Commit(GenerateImageStore(Cur, sid, u, imgOk, okGet2, okSave))
                       /\ resp' = MediaResponse("image_generate", u, sid, 200, "ok",
                                       ReadSource(Cur, sid, u, okGet2), 0,
                                       AddImageResult(Cur, sid, u, ImageFile, okGet2))
    /\ UNCHANGED issued

ImageIndexes == (0 - 1)..MaxImages

SelectImage(u, sid, idx, okGet, okSave) ==
    /\ IF SelectImageResult(Cur, sid, u, idx, okGet) = None
       THEN /\ resp' = Response("image_select", u, sid, 0, 404, "not found")
            /\ Quiet
       ELSE /\ Commit(SelectImageSvc(Cur, sid, u, idx, okGet, okSave))
            /\ resp' = MediaResponse("image_select", u, sid, 200, "ok",
                            ReadSource(Cur, sid, u, okGet), idx,
                            SelectImageResult(Cur, sid, u, idx, okGet))
    /\ UNCHANGED issued

GenerateBgm(u, sid, okGet, okGet2, okSave, bgmOk) ==
    /\ IF GetDiary(Cur, sid, u, okGet) = None
       THEN /\ resp' = Response("bgm_generate", u, sid, 0, 404, "not found")
            /\ Quiet
       ELSE IF ~bgmOk
       THEN /\ resp' = Response("bgm_generate", u, sid, 0, 200, "success false")
            /\ Quiet
       ELSE /\ Commit(UpdateBgmPath(Cur, sid, u, BgmFile, okGet2, okSave))
            /\ resp' = Response("bgm_generate", u, sid, 0, 200, "ok")
    /\ UNCHANGED issued

(***************************************************************************)
(* GET /api/diaries, GET /api/diaries/{id}, DELETE /api/diaries/{id}       *)
(***************************************************************************)
ListRequest(u, ok) ==
    /\ resp' = Response("list", u, NoId, 0, 200,
                        IF ok /\ RemoteList(Cur, u) # {} THEN "remote" ELSE "local")
    /\ UNCHANGED issued /\ Quiet

GetRequest(u, sid, ok) ==
    /\ resp' = IF GetDiary(Cur, sid, u, ok) = None
               THEN Response("get", u, sid, 0, 404, "not found")
               ELSE Response("get", u, sid, 0, 200,
                             IF ok /\ RemoteSelect(Cur, sid, u) # None
                             THEN "remote" ELSE "local")
    /\ UNCHANGED issued /\ Quiet

DeleteRequest(u, sid, ok) ==
    /\ Commit(DeleteDiarySvc(Cur, sid, u, ok))
    /\ resp' = IF DeleteDiaryResult(Cur, sid, u)
               THEN Response("delete", u, sid, 0, 200, "ok")
               ELSE Response("delete", u, sid, 0, 404, "not found")
    /\ UNCHANGED issued

(***************************************************************************)
(* Process restart: the in-memory histories are lost, the stores are kept  *)
(***************************************************************************)
Restart ==
    /\ \E id \in Ids : sessions[id] # <<>>
    /\ Spend
    /\ sessions' = [id \in Ids |-> <<>>]
    /\ resp' = Response("restart", "A", NoId, 0, 200, "ok")
    /\ UNCHANGED <<local, remote, issued>>

(***************************************************************************)
(* Spec: the record store under two owners who may use the same session    *)
(* id, with every pattern of remote reads / writes failing per request.    *)
(***************************************************************************)
\* session ids on which the record-store specification is explored
StorePool == {<<1, 1>>}

\* Availability of the remote store during one request: r is the outcome of
\* its remote reads, w the outcome of its remote writes.
StartOks(r, w) == <<w, w, r, r, w>>
ChatOks(r, w) == <<r, w, w, w, r, r, w>>
EndOks(r, w) == <<r, w, r, w>>

\* summary/update requests explored: the edited text and the regenerated tags
UpdateInputs ==
    {[summary |-> "", regen |-> [emotion_tags |-> <<>>, image_prompt |-> "",
                                bgm_prompt |-> ""]],
     [summary |-> "edited", regen |-> [emotion_tags |-> <<"joy">>,
                                      image_prompt |-> "scene2",
                                      bgm_prompt |-> "calm2"]]}

Next ==
    \/ \E u \in Owners, req \in StartRequests, sid \in StorePool,
          r \in BOOLEAN, w \in BOOLEAN, aiOk \in BOOLEAN :
          StartSession(u, req, sid, StartOks(r, w), aiOk)
    \/ \E u \in Owners, sid \in StorePool, msg \in UserMessages,
          r \in BOOLEAN, w \in BOOLEAN, aiOk \in BOOLEAN, reply \in Replies :
          Chat(u, sid, msg, ChatOks(r, w), aiOk, reply)
    \/ \E u \in Owners, sid \in StorePool, out \in SummaryOutputs,
          r \in BOOLEAN, w \in BOOLEAN, aiOk \in BOOLEAN :
          EndSession(u, sid, out, EndOks(r, w), aiOk)
    \/ \E u \in Owners, sid \in StorePool, in \in UpdateInputs,
          r \in BOOLEAN, w \in BOOLEAN, aiOk \in BOOLEAN :
          UpdateSummary(u, sid, in.summary, in.regen, r, w, aiOk)
    \/ \E u \in Owners, ok \in BOOLEAN : ListRequest(u, ok)
    \/ \E u \in Owners, sid \in StorePool, ok \in BOOLEAN : GetRequest(u, sid, ok)
    \/ \E u \in Owners, sid \in StorePool, ok \in BOOLEAN : DeleteRequest(u, sid, ok)
    \/ Restart

Spec == Init /\ [][Next]_vars

(***************************************************************************)
(* SpecQuota: the daily quota gate.  One owner, requests handled one at a  *)
(* time, the remote store reachable throughout.                            *)
(***************************************************************************)
QuotaOwner == "A"

QuotaStartRequests == {r \in StartRequests : r.kind # "date" \/ r.d # Today}

NextQuota ==
    \/ \E req \in QuotaStartRequests, sid \in Ids :
          StartSession(QuotaOwner, req, sid, StartOks(TRUE, TRUE), TRUE)
    \/ \E sid \in issued, msg \in UserMessages, reply \in Replies :
          Chat(QuotaOwner, sid, msg, ChatOks(TRUE, TRUE), TRUE, reply)
    \/ \E sid \in issued, out \in SummaryOutputs :
          EndSession(QuotaOwner, sid, out, EndOks(TRUE, TRUE), TRUE)
    \/ \E sid \in issued, in \in UpdateInputs :
          UpdateSummary(QuotaOwner, sid, in.summary, in.regen, TRUE, TRUE, TRUE)
    \/ \E sid \in issued : DeleteRequest(QuotaOwner, sid, TRUE)

SpecQuota == InitQuota /\ [][NextQuota]_vars

(***************************************************************************)
(* SpecList: the order of list(owner).  One owner starts sessions with the *)
(* default date and with explicit dates and ends them; the remote store is *)
(* reachable for the writes, list is answered on either path.              *)
(***************************************************************************)
ListOwner == "A"

NextList ==
    \/ \E req \in StartRequests, sid \in Ids :
          StartSession(ListOwner, req, sid, StartOks(TRUE, TRUE), TRUE)
    \/ \E sid \in issued, out \in SummaryOutputs :
          EndSession(ListOwner, sid, out, EndOks(TRUE, TRUE), TRUE)
    \/ \E ok \in BOOLEAN : ListRequest(ListOwner, ok)

SpecList == InitList /\ [][NextList]_vars

(***************************************************************************)
(* SpecMedia: the image gallery and the background music of the records of *)
(* one owner.  Sessions are started and ended with the remote store        *)
(* reachable; the media requests see every pattern of remote reads and     *)
(* writes failing and of the generation collaborators failing.             *)
(***************************************************************************)
MediaOwner == "A"

MediaStartRequests == {r \in StartRequests : r.kind = "none"}

NextMedia ==
    \/ \E req \in MediaStartRequests, sid \in Ids :
          StartSession(MediaOwner, req, sid, StartOks(TRUE, TRUE), TRUE)
    \/ \E sid \in issued, out \in SummaryOutputs :
          EndSession(MediaOwner, sid, out, EndOks(TRUE, TRUE), TRUE)
    \/ \E sid \in issued, r \in BOOLEAN, w \in BOOLEAN, imgOk \in BOOLEAN :
          GenerateImage(MediaOwner, sid, r, r, w, imgOk)
    \/ \E sid \in issued, idx \in ImageIndexes, r \in BOOLEAN, w \in BOOLEAN :
          SelectImage(MediaOwner, sid, idx, r, w)
    \/ \E sid \in issued, r \in BOOLEAN, w \in BOOLEAN, bgmOk \in BOOLEAN :
          GenerateBgm(MediaOwner, sid, r, r, w, bgmOk)
    \/ \E sid \in issued, ok \in BOOLEAN : GetRequest(MediaOwner, sid, ok)

SpecMedia == InitMedia /\ [][NextMedia]_vars

(***************************************************************************)
(* SpecComplete: the end-of-session flag that chat and start_session       *)
(* answer, as a function of the user's text and of the assistant's reply.  *)
(***************************************************************************)
Pads == UNION {[1..n -> {"a"}] : n \in 0..MaxPad}

\* the phrases, texts that only share a part with a phrase, and plain text
TextCores ==
    EndKeywords \cup {SummarisePhrase, WrapUpPhrase}
    \cup {<<>>, <<"geu">>, <<"geu", "a", "man">>, <<"ma", "mu">>,
          <<"jeong", "ri", "hae">>, <<"hal", "kka", "yo">>}

SampleTexts == {pre \o core \o suf : pre \in Pads, core \in TextCores, suf \in Pads}

ReplyResponse(op, user_message, message, is_complete) ==
    [op |-> op, user |-> "A", id |-> NoId, date |-> 0, status |-> 200,
     body |-> "ok", user_message |-> user_message, message |-> message,
     is_complete |-> is_complete]

\* the answer of chat: ChatResponse(message=response_text, is_complete=...)
ChatReply(user_message, response_text) ==
    /\ Spend
    /\ resp' = ReplyResponse("chat", user_message, response_text,
                             IsComplete(user_message, response_text))
    /\ UNCHANGED <<local, remote, sessions, issued>>

\* the answer of start_session: {"message": greeting, "is_complete": False}
StartReply(greeting) ==
    /\ Spend
    /\ resp' = ReplyResponse("start", <<>>, greeting, FALSE)
    /\ UNCHANGED <<local, remote, sessions, issued>>

NextComplete ==
    \/ \E user_message \in SampleTexts, response_text \in SampleTexts :
          ChatReply(user_message, response_text)
    \/ \E greeting \in SampleTexts : StartReply(greeting)

SpecComplete == InitComplete /\ [][NextComplete]_vars

(***************************************************************************)
(* SpecAuth: the identity check that runs before every handler.  A request *)
(* presents a credential; the handler body runs for the user the check     *)
(* answers, and does not run when the check answers 401.                   *)
(***************************************************************************)
\* Credentials.  kind: no credential, a string that does not decode as a JWT,
\* a JWT without a sub claim, a JWT with sub claim.  genuine is a history
\* field: the identity provider signed the token for sub.
Credentials ==
    {[kind |-> k, via |-> v, sub |-> "", genuine |-> FALSE] :
        k \in {"malformed", "nosub"}, v \in {"header", "query"}}
    \cup {[kind |-> "none", via |-> "header", sub |-> "", genuine |-> FALSE]}
    \cup {[kind |-> "jwt", via |-> v, sub |-> u, genuine |-> g] :
              v \in {"header", "query"}, u \in Owners, g \in BOOLEAN}

\* what the identity provider answers to a lookup of the user id
ClerkStates == {"found", "not_found", "unreachable"}
\* whether the installed SDK has users.get, and what its client.get returns
SdkShapes == {"users_get", "legacy"}
DirectShapes == {"context_manager", "response", "other"}

Unauthorized(detail) == [status |-> 401, user |-> "anonymous", detail |-> detail]
Authorized(u) == [status |-> 200, user |-> u, detail |-> "ok"]

\* the fallback request clerk_client.get("users/<id>")
DirectFetch(cred, clerk, direct) ==
    IF clerk = "unreachable" \/ direct = "response"
    THEN Authorized(cred.sub)       \* any exception: the JWT payload is trusted
    ELSE IF direct = "other"
    THEN Unauthorized("User data could not be retrieved")
    ELSE IF clerk = "found"
    THEN Authorized(cred.sub)
    ELSE Unauthorized("User not found in Clerk")

\* get_current_user: the signature of the token is not verified
GetCurrentUser(cred, clerk, sdk, direct) ==
    IF cred.kind = "none"
    THEN Unauthorized("Missing authentication token")
    ELSE IF cred.kind \in {"malformed", "nosub"}
    THEN Unauthorized("Invalid token")
    ELSE IF sdk = "users_get" /\ clerk = "found"
    THEN Authorized(cred.sub)
    ELSE DirectFetch(cred, clerk, direct)

AuthResponse(cred, clerk, result) ==
    [op |-> "auth", user |-> result.user, id |-> NoId, date |-> 0,
     status |-> result.status, body |-> result.detail,
     credential |-> cred, clerk |-> clerk]

Authenticate(cred, clerk, sdk, direct) ==
    /\ resp' = AuthResponse(cred, clerk, GetCurrentUser(cred, clerk, sdk, direct))
    /\ UNCHANGED issued /\ Quiet

\* the handler body runs with the user the identity check answered
Authenticated == resp.op = "auth" /\ resp.status = 200

NextAuth ==
    \/ \E cred \in Credentials, clerk \in ClerkStates, sdk \in SdkShapes,
          direct \in DirectShapes : Authenticate(cred, clerk, sdk, direct)
    \/ \E req \in MediaStartRequests, sid \in Ids :
          /\ Authenticated
          /\ StartSession(resp.user, req, sid, StartOks(TRUE, TRUE), TRUE)
    \/ \E sid \in issued :
          /\ Authenticated
          /\ GetRequest(resp.user, sid, TRUE)

SpecAuth == InitAuth /\ [][NextAuth]_vars

(***************************************************************************)
(* SpecPrompt: the text prompt that generate_bgm hands to the music model, *)
(* as a function of the record's emotion tags and bgm_prompt.              *)
(***************************************************************************)
\* MusicService.MOOD_PROMPTS (tags romanised)
MOOD_PROMPTS ==
    [gippeum |-> "happy upbeat cheerful cinematic soundtrack, bright and energetic, major key",
     haengbok |-> "joyful warm atmospheric music, positive and heart-warming mood",
     seollem |-> "exciting anticipatory cinematic score, building energy and wonder",
     pyeonghwa |-> "peaceful calm ambient soundscape, serene and tranquil atmosphere",
     gamsa |-> "warm grateful emotive soundtrack, heartfelt and sincere tones",
     sarang |-> "romantic tender cinematic music, sweet and soft mood",
     seulpeum |-> "melancholic sad emotive score, slow and touching, minor key",
     uul |-> "somber reflective ambient music, introspective and deep mood",
     pigon |-> "relaxing soothing ambient soundscape, calming and minimal",
     buran |-> "tense atmospheric suspenseful music, uneasy and edge-of-seat feeling",
     hwanam |-> "intense powerful dramatic score, bold and aggressive energy",
     oeroum |-> "lonely contemplative minimal soundtrack, quiet and introspective",
     huimang |-> "hopeful uplifting cinematic music, inspiring and rising energy",
     geurium |-> "nostalgic wistful cinematic score, longing and memories"]

DEFAULT_PROMPT == "calm relaxing instrumental ambient music, peaceful and steady mood"

InMoodPrompts(tag) == tag \in DOMAIN MOOD_PROMPTS

\* ", ".join(prompts)
RECURSIVE JoinPrompts(_)
JoinPrompts(prompts) ==
    IF prompts = <<>> THEN ""
    ELSE IF Len(prompts) = 1 THEN prompts[1]
    ELSE prompts[1] \o ", " \o JoinPrompts(Tail(prompts))

\* the list prompts of _get_music_prompt before it is cut
MoodPromptList(emotion_tags, custom_prompt) ==
    LET known == SelectSeq(emotion_tags, InMoodPrompts)
        moods == [i \in 1..Len(known) |-> MOOD_PROMPTS[known[i]]]
    IN IF custom_prompt # "" THEN Append(moods, custom_prompt) ELSE moods

\* variant of GetMusicPrompt that joins every prompt of the list
GetMusicPrompt_JoinsAll(emotion_tags, custom_prompt) ==
    LET prompts == MoodPromptList(emotion_tags, custom_prompt)
    IN IF prompts # <<>> THEN JoinPrompts(prompts) ELSE DEFAULT_PROMPT

\* _get_music_prompt: ", ".join(prompts[:2]) or the default
GetMusicPrompt(emotion_tags, custom_prompt) ==
    LET prompts == MoodPromptList(emotion_tags, custom_prompt)
    IN IF prompts # <<>>
       THEN JoinPrompts(SubSeq(prompts, 1, IF Len(prompts) < 2 THEN Len(prompts) ELSE 2))
       ELSE DEFAULT_PROMPT

\* generate_bgm: music_prompt = bgm_prompt if bgm_prompt else _get_music_prompt(tags)
MusicPrompt(emotion_tags, bgm_prompt) ==
    IF bgm_prompt # "" THEN bgm_prompt ELSE GetMusicPrompt(emotion_tags, "")

\* tags of the records explored: three of the table and one that is not in it
TagSamples == {"gippeum", "seulpeum", "pigon", "other"}
TagLists == UNION {[1..n -> TagSamples] : n \in 0..MaxTags}
\* bgm_prompt=diary.bgm_prompt or ""
BgmPrompts == {"", "rainy lo-fi"}

BgmPrompt(emotion_tags, bgm_prompt) ==
    /\ Spend
    /\ resp' = [op |-> "bgm_prompt", user |-> "A", id |-> NoId, date |-> 0,
                status |-> 200, body |-> "ok", emotion_tags |-> emotion_tags,
                bgm_prompt |-> bgm_prompt,
                music_prompt |-> MusicPrompt(emotion_tags, bgm_prompt)]
    /\ UNCHANGED <<local, remote, sessions, issued>>

NextPrompt ==
    \E emotion_tags \in TagLists, bgm_prompt \in BgmPrompts :
        BgmPrompt(emotion_tags, bgm_prompt)

SpecPrompt == InitPrompt /\ [][NextPrompt]_vars

(***************************************************************************)
(* Chat requests in flight together.  A request arrives and its dependency *)
(* get_current_user awaits the identity provider.  When the lookup answers *)
(* the rest of the dependency and the handler body run without another     *)
(* suspension point, so they are one step.                                 *)
(***************************************************************************)
ConcOwner == "A"
ConcSession == <<Today, 1>>
ConcText(r) == "m" \o ToString(r)
ConcAnswer(r) == "r" \o ToString(r)

InitConc == InitStores /\ budget = 1

Arrived == {inflight[i].req : i \in 1..Len(inflight)}
Unfinished == {inflight[i].req : i \in {k \in 1..Len(inflight) : inflight[k].pc # "done"}}
At(r) == CHOOSE i \in 1..Len(inflight) : inflight[i].req = r

\* the server accepts a request; seen are the requests then in flight
Arrive(r) ==
    /\ r \notin Arrived
    /\ r = Len(inflight) + 1
    /\ inflight' = Append(inflight, [req |-> r, pc |-> "auth", seen |-> Unfinished])
    /\ resp' = Response("arrive", ConcOwner, ConcSession, 0, 0, "pending")
    /\ UNCHANGED <<local, remote, sessions, issued, budget, music>>

\* the awaited lookup of get_current_user answers for request r and the body
\* of chat runs, with the outcomes (rd, wr) of its remote reads and writes
ChatBody(r, rd, wr) ==
    /\ r \in Arrived
    /\ inflight[At(r)].pc = "auth"
    /\ LET oks == ChatOks(rd, wr)
           st1 == UpdateConversation(Cur, ConcSession, ConcOwner, "user",
                                     ConcText(r), Now,
                                     <<oks[1], oks[2], oks[3], oks[4]>>)
           st2 == AfterModelCall(st1, ConcSession, ConcOwner, ConcText(r),
                                 oks[5], TRUE, ConcAnswer(r))
           st3 == UpdateConversation(st2, ConcSession, ConcOwner, "model",
                                     ConcAnswer(r), Now,
                                     <<oks[6], TRUE, TRUE, oks[7]>>)
       IN /\ local' = st3.loc
          /\ remote' = st3.rem
          /\ sessions' = st3.ses
    /\ inflight' = [inflight EXCEPT ![At(r)].pc = "done"]
    /\ resp' = Response("chat", ConcOwner, ConcSession, 0, 200, "ok")
    /\ UNCHANGED <<issued, budget, music>>

NextConc ==
    \/ \E rd \in BOOLEAN, wr \in BOOLEAN :
          /\ inflight = <<>>
          /\ StartSession(ConcOwner, [kind |-> "none", d |-> Today], ConcSession,
                          StartOks(rd, wr), TRUE)
    \/ \E r \in 1..MaxInflight : Arrive(r)
    \/ \E r \in 1..MaxInflight, rd \in BOOLEAN, wr \in BOOLEAN : ChatBody(r, rd, wr)

SpecConc == InitConc /\ [][NextConc]_vars

(***************************************************************************)
(* The music model of the process.  lifespan preloads it before the server *)
(* takes requests; generate_bgm loads it on use.  Neither _load_model nor  *)
(* generate_bgm has a suspension point, so a load is one step.             *)
(***************************************************************************)
\* how a run of the loading branch can end: at its last line, or with an
\* exception of from_pretrained (processor, model) or of .to(device)
LoadOutcomes == {"ok", "processor_fails", "model_fails", "to_fails"}

\* variant of LoadModel without the `is None` test
LoadModel_Unguarded(m, outcome) ==
    [m |-> [m EXCEPT !.loads = @ + 1,
                     !.processor = @ \/ outcome # "processor_fails",
                     !.model = @ \/ outcome \in {"to_fails", "ok"},
                     !.completed = IF outcome = "ok" THEN @ + 1 ELSE @],
     raised |-> outcome # "ok"]

\* _load_model: nothing when the model is set, else the loading branch
LoadModel(m, outcome) ==
    IF m.model THEN [m |-> m, raised |-> FALSE]
    ELSE [m |-> [m EXCEPT !.loads = @ + 1,
                          !.processor = @ \/ outcome # "processor_fails",
                          !.model = outcome \in {"to_fails", "ok"},
                          !.completed = IF outcome = "ok" THEN @ + 1 ELSE @],
          raised |-> outcome # "ok"]

InitLoad == InitStores /\ budget = 1

\* lifespan, before yield: the preload, whose exception is caught
Preload(outcome) ==
    /\ ~music.started
    /\ music' = [LoadModel(music, outcome).m EXCEPT !.started = TRUE]
    /\ resp' = Response("startup", ConcOwner, NoId, 0, 200, "ok")
    /\ UNCHANGED <<local, remote, sessions, issued, budget, inflight>>

\* the awaited lookup of get_current_user answers for request r and the body
\* of bgm/generate runs; bgmOk is the outcome of the generation after the load
BgmBody(r, outcome, bgmOk) ==
    /\ r \in Arrived
    /\ inflight[At(r)].pc = "auth"
    /\ inflight' = [inflight EXCEPT ![At(r)].pc = "done"]
    /\ IF GetDiary(Cur, ConcSession, ConcOwner, TRUE) = None
       THEN /\ resp' = Response("bgm_generate", ConcOwner, ConcSession, 0, 404,
                                "not found")
            /\ UNCHANGED <<local, remote, sessions, music>>
       ELSE LET ld == LoadModel(music, outcome)
                st == UpdateBgmPath(Cur, ConcSession, ConcOwner, BgmFile, TRUE, TRUE)
            IN /\ music' = ld.m
               /\ IF ld.raised \/ ~bgmOk
                  THEN /\ resp' = Response("bgm_generate", ConcOwner, ConcSession,
                                           0, 200, "success false")
                       /\ UNCHANGED <<local, remote, sessions>>
                  ELSE /\ resp' = Response("bgm_generate", ConcOwner, ConcSession,
                                           0, 200, "ok")
                       /\ local' = st.loc
                       /\ remote' = st.rem
                       /\ sessions' = st.ses
    /\ UNCHANGED <<issued, budget>>

NextLoad ==
    \/ \E outcome \in LoadOutcomes : Preload(outcome)
    \/ \E rd \in BOOLEAN, wr \in BOOLEAN :
          /\ music.started
          /\ inflight = <<>>
          /\ StartSession(ConcOwner, [kind |-> "none", d |-> Today], ConcSession,
                          StartOks(rd, wr), TRUE)
    \/ \E r \in 1..MaxLoadRequests : music.started /\ Arrive(r)
    \/ \E r \in 1..MaxLoadRequests, outcome \in LoadOutcomes, bgmOk \in BOOLEAN :
          BgmBody(r, outcome, bgmOk)

SpecLoad == InitLoad /\ [][NextLoad]_vars

(***************************************************************************)
(* Two owners who use one session id, with a reachable remote store and a  *)
(* model that answers.  Each owner sends a text of their own, so that the  *)
(* owner of a user turn can be read off the in-memory history.             *)
(***************************************************************************)
OwnerText(u) == "msg" \o u

InitSession == InitStores /\ budget = MaxSessionRequests

NextSession ==
    \/ \E u \in Owners, req \in MediaStartRequests, sid \in Ids :
          StartSession(u, req, sid, StartOks(TRUE, TRUE), TRUE)
    \/ \E u \in Owners :
          Chat(u, ConcSession, OwnerText(u), ChatOks(TRUE, TRUE), TRUE, "reply")
    \/ \E u \in Owners, out \in SummaryOutputs :
          EndSession(u, ConcSession, out, EndOks(TRUE, TRUE), TRUE)
    \/ Restart
    \/ \E u \in Owners : GetRequest(u, ConcSession, TRUE)

SpecSession == InitSession /\ [][NextSession]_vars

(***************************************************************************)
(* Properties                                                              *)
(***************************************************************************)
After == Store(local', remote', sessions')

HasRecord(st, u, id) == st.loc[u][id] # None \/ RemoteSelect(st, id, u) # None

\* records of owner u for date d whose summary is not null
NonNullSummaryIds(u, d) ==
    {id \in Ids : /\ IdDate(id) = d
                  /\ local[u][id] # None
                  /\ local[u][id].summary # Null}

\* records of owner u for date d whose summary is neither null nor empty
NonEmptySummaryIds(u, d) ==
    {id \in Ids : /\ IdDate(id) = d
                  /\ local[u][id] # None
                  /\ local[u][id].summary # Null
                  /\ local[u][id].summary # ""}

InProgressIds(u, d) ==
    {id \in Ids : /\ IdDate(id) = d
                  /\ local[u][id] # None
                  /\ local[u][id].summary = Null}

StartAnswered == resp'.op = "start" /\ resp'.body # "invalid date"

C2_AtMostTwoComplete ==
    \A u \in Owners, d \in Dates :
        Cardinality(NonNullSummaryIds(u, d)) <= QuotaLimit

\* C3 as stated: saving a record and reading it back returns the saved record,
\* whatever the outcome of the remote write and of the remote read.
C3_RoundTrip ==
    \A u \in Owners, id \in StorePool, okr \in BOOLEAN, ok1 \in BOOLEAN, ok2 \in BOOLEAN :
        LET cur == GetDiary(Cur, id, u, okr)
            d == [cur EXCEPT !.conversation = Append(@, ChatMessage("user", "msg"))]
        IN cur # None => GetDiary(SaveDiary(Cur, d, u, ok1), id, u, ok2) = d

\* C4 as stated: across every request other than a delete, the conversation
\* that get returns after the request extends the one it returned before,
\* whatever the outcome of the remote read of either get.
C4_ConversationAppendOnly ==
    [][\A u \in Owners, id \in StorePool, ok1 \in BOOLEAN, ok2 \in BOOLEAN :
          (/\ resp'.op # "delete"
           /\ GetDiary(Cur, id, u, ok1) # None
           /\ GetDiary(After, id, u, ok2) # None)
          => IsPrefix(GetDiary(Cur, id, u, ok1).conversation,
                      GetDiary(After, id, u, ok2).conversation)]_vars

\* C5: whatever get or list returns to an owner was constructed by a request of
\* that owner, on the remote path and on the local fallback path.
C5_OwnerIsolation ==
    \A u \in Owners, ok \in BOOLEAN :
        /\ \A id \in Ids : GetDiary(Cur, id, u, ok) # None
                           => GetDiary(Cur, id, u, ok).origin = u
        /\ \A id \in ListDiaries(Cur, u, ok) :
               ListItemSource(Cur, u, id, ok).origin = u

\* owner B was answered by get on an id under which owner A holds a record too
C5_Witness ==
    /\ resp.op = "get" /\ resp.status = 200
    /\ \E a \in Owners : a # resp.user /\ local[a][resp.id] # None
    /\ local[resp.user][resp.id] # None

ForeignOps == {"chat", "end", "summary_update", "image_generate", "image_select",
               "bgm_generate", "delete"}

\* C6 as stated: a request of one owner changes neither the local copy nor the
\* remote row of a record that another owner holds under the same id.
C6_OwnerImmutable ==
    [][\A a \in Owners, id \in StorePool :
          (resp'.op \in ForeignOps /\ resp'.user # a)
          => /\ local'[a][id] = local[a][id]
             /\ RemoteSelect(Cur, id, a) # None => remote'[id] = remote[id]]_vars

\* C7 as stated: a request other than start on an id under which the caller
\* holds no record leaves the caller without a record under that id.
C7_OnlyStartCreates ==
    [][(resp'.op \in ForeignOps \ {"delete"} /\ ~HasRecord(Cur, resp'.user, resp'.id))
          => ~HasRecord(After, resp'.user, resp'.id)]_vars

\* C8 as stated: once delete has answered success, no store holds the record
\* and get answers not-found.
C8_DeleteRemovesBoth ==
    (resp.op = "delete" /\ resp.status = 200)
    => /\ ~HasRecord(Cur, resp.user, resp.id)
       /\ \A ok \in BOOLEAN : GetDiary(Cur, resp.id, resp.user, ok) = None

\* C9: delete on an id under which the caller holds no record answers 404 and
\* changes no record of any owner in either store.
C9_DeleteMissing ==
    [][(resp'.op = "delete" /\ ~HasRecord(Cur, resp'.user, resp'.id))
          => /\ resp'.status = 404
             /\ local' = local
             /\ remote' = remote]_vars

\* a delete was answered 404 while another owner holds a record under that id,
\* locally and in the remote store
C9_Witness ==
    /\ resp.op = "delete" /\ resp.status = 404
    /\ ~HasRecord(Cur, resp.user, resp.id)
    /\ \E a \in Owners : /\ a # resp.user
                         /\ local[a][resp.id] # None
                         /\ RemoteSelect(Cur, resp.id, a) # None

\* C10 as stated: on either path, list(owner) holds an id exactly when the copy
\* of the owner that the path reads exists and has a non-null summary.
C10_ListComplete ==
    \A u \in Owners, ok \in BOOLEAN, id \in StorePool :
        LET copy == IF ok /\ RemoteList(Cur, u) # {}
                    THEN RemoteSelect(Cur, id, u) ELSE local[u][id]
        IN id \in ListDiaries(Cur, u, ok) <=> (copy # None /\ copy.summary # Null)

\* C11 as stated: on the remote path and on the local fallback path, the items
\* of list(owner) come in descending order of created_at.
C11_ListDescending ==
    \A u \in Owners, ok \in BOOLEAN :
        \A s \in ListOrders(Cur, u, ok) :
            \A i, j \in 1..Len(s) :
                i < j => NotBefore(ListItemSource(Cur, u, s[i], ok).created_at,
                                   ListItemSource(Cur, u, s[j], ok).created_at)

\* the copy of (u, id) that a handler read, as named in its answer
ReadCopy(st, u, id, source) ==
    IF source = "remote" THEN RemoteSelect(st, id, u) ELSE st.loc[u][id]

InRange(d) ==
    d.image_paths # <<>>
    => (0 <= d.selected_image_index /\ d.selected_image_index < Len(d.image_paths))

\* C12: every stored copy, local and remote, of a record with a non-empty
\* image_paths has 0 <= selected_image_index < len(image_paths).
C12_SelectedInRange ==
    \A id \in Ids :
        /\ \A u \in Owners : local[u][id] # None => InRange(local[u][id])
        /\ remote[id] # None => InRange(remote[id].entry)

\* a select request moved the selection of a gallery of two images back to
\* the first one, in both stores
C12_Witness ==
    /\ resp.op = "image_select" /\ resp.status = 200
    /\ resp.image_index = 0
    /\ local[resp.user][resp.id] # None
    /\ Len(local[resp.user][resp.id].image_paths) = 2
    /\ local[resp.user][resp.id].selected_image_index = 0
    /\ remote[resp.id] # None
    /\ Len(remote[resp.id].entry.image_paths) = 2
    /\ remote[resp.id].entry.selected_image_index = 0

ImageAdded == resp'.op = "image_generate" /\ resp'.body = "ok"

\* C13: a successful add_image answers, and stores, a record whose image_paths
\* is the image_paths of the record it read with the new path appended (one
\* entry longer) and whose selected_image_index is the new last index.
C13_AddImageAppends ==
    [][ImageAdded =>
         LET prev == ReadCopy(Cur, resp'.user, resp'.id, resp'.source)
             now == local'[resp'.user][resp'.id]
         IN /\ resp'.image_paths = Append(prev.image_paths, ImageFile)
            /\ Len(resp'.image_paths) = Len(prev.image_paths) + 1
            /\ resp'.selected_image_index = Len(resp'.image_paths) - 1
            /\ now.image_paths = resp'.image_paths
            /\ now.selected_image_index = Len(now.image_paths) - 1]_vars

\* a second image was added while the first one was selected
C13_Witness ==
    /\ resp.op = "image_generate" /\ resp.body = "ok"
    /\ Len(resp.image_paths) = 2
    /\ resp.selected_image_index = 1

SelectAnswered == resp'.op = "image_select" /\ resp'.status = 200

\* C14: select_image with index < 0 or index >= len(image_paths) on an existing
\* record changes neither store and answers success with the selected index
\* the record had.
C14_SelectOutOfRange ==
    [][SelectAnswered =>
         LET d == ReadCopy(Cur, resp'.user, resp'.id, resp'.source)
         IN (resp'.image_index < 0 \/ resp'.image_index >= Len(d.image_paths))
            => /\ local' = local
               /\ remote' = remote
               /\ resp'.selected_image_index = d.selected_image_index]_vars

\* index 2 was requested on a gallery of two images whose second is selected
C14_Witness ==
    /\ resp.op = "image_select" /\ resp.status = 200
    /\ resp.image_index = 2
    /\ Len(resp.image_paths) = 2
    /\ resp.selected_image_index = 1

\* C15 as stated: select_image with the index that is selected already changes
\* neither the local copy nor the remote copy nor what get returns.
C15_SelectCurrentNoOp ==
    [][SelectAnswered =>
         LET d == ReadCopy(Cur, resp'.user, resp'.id, resp'.source)
         IN (d.image_paths # <<>> /\ resp'.image_index = d.selected_image_index)
            => /\ local' = local
               /\ remote' = remote
               /\ \A ok \in BOOLEAN :
                      GetDiary(After, resp'.id, resp'.user, ok)
                      = GetDiary(Cur, resp'.id, resp'.user, ok)]_vars

\* C16 as stated: across every request, the image_paths that get returns after
\* the request extends the one it returned before, whatever the outcome of the
\* remote read of either get, and a successful image generation makes it one
\* entry longer.
C16_ImagePathsAppendOnly ==
    [][\A u \in Owners, id \in Ids, ok1 \in BOOLEAN, ok2 \in BOOLEAN :
          (/\ GetDiary(Cur, id, u, ok1) # None
           /\ GetDiary(After, id, u, ok2) # None)
          => /\ IsPrefix(GetDiary(Cur, id, u, ok1).image_paths,
                         GetDiary(After, id, u, ok2).image_paths)
             /\ (ImageAdded /\ resp'.user = u /\ resp'.id = id)
                => Len(GetDiary(After, id, u, ok2).image_paths)
                   = Len(GetDiary(Cur, id, u, ok1).image_paths) + 1]_vars

\* C17: when the image collaborator fails, image/generate answers 200 with
\* success false and changes no record in either store.
C17_ImageFailureWritesNothing ==
    [][(resp'.op = "image_generate" /\ resp'.body = "success false")
          => /\ resp'.status = 200
             /\ local' = local
             /\ remote' = remote]_vars

\* image generation failed on a record that holds an image prompt and an image
C17_Witness ==
    /\ resp.op = "image_generate" /\ resp.body = "success false"
    /\ local[resp.user][resp.id] # None
    /\ Truthy(local[resp.user][resp.id].image_prompt)
    /\ local[resp.user][resp.id].image_paths # <<>>

ChatFailed == resp'.op = "chat" /\ resp'.status = 500

\* C18: when the AI call of chat fails, the caller is answered an error, the
\* caller's stored transcript is the transcript the handler read with the
\* user's turn appended as its last turn and no model turn after it, and the
\* remote row is either left as it was or equal to that stored copy.
C18_UserTurnKept ==
    [][ChatFailed =>
         LET now == local'[resp'.user][resp'.id]
         IN /\ now # None
            /\ now.conversation # <<>>
            /\ now.conversation[Len(now.conversation)].role = "user"
            /\ now.conversation[Len(now.conversation)].content \in UserMessages
            /\ \E ok \in BOOLEAN :
                  LET read == GetDiary(Cur, resp'.id, resp'.user, ok)
                  IN now.conversation =
                        Append(IF read = None THEN <<>> ELSE read.conversation,
                               now.conversation[Len(now.conversation)])
            /\ \/ remote'[resp'.id] = remote[resp'.id]
               \/ remote'[resp'.id] = Row(now, resp'.user)]_vars

\* the AI call of chat failed on a session that held the greeting already
C18_Witness ==
    /\ resp.op = "chat" /\ resp.status = 500
    /\ local[resp.user][resp.id] # None
    /\ Len(local[resp.user][resp.id].conversation) = 2
    /\ local[resp.user][resp.id].conversation[1].role = "model"
    /\ local[resp.user][resp.id].conversation[2].role = "user"

\* needle occurs in text: text is some prefix, then needle, then some suffix
Occurs(needle, text) ==
    \E i \in 0..Len(text), j \in 0..Len(text) :
        /\ i <= j
        /\ SubSeq(text, 1, i) \o needle \o SubSeq(text, j + 1, Len(text)) = text

\* C19: chat answers is_complete = true exactly when the user's text contains
\* one of the end keywords or the reply contains one of the two completion
\* phrases; start_session answers is_complete = false.
C19_IsCompleteRule ==
    /\ resp.op = "chat"
       => (resp.is_complete
           <=> \/ \E kw \in EndKeywords : Occurs(kw, resp.user_message)
               \/ Occurs(SummarisePhrase, resp.message)
               \/ Occurs(WrapUpPhrase, resp.message))
    /\ resp.op = "start" => resp.is_complete = FALSE

\* chat answered is_complete = true only because of the second phrase in the
\* reply, the user's text holding no end keyword
C19_Witness ==
    /\ resp.op = "chat" /\ resp.is_complete
    /\ \A kw \in EndKeywords : ~Occurs(kw, resp.user_message)
    /\ ~Occurs(SummarisePhrase, resp.message)
    /\ Occurs(WrapUpPhrase, resp.message)

\* the transcript of (u, id) is empty in every copy get can return
PersistedEmpty(st, u, id) ==
    \A ok \in BOOLEAN :
        GetDiary(st, id, u, ok) = None \/ GetDiary(st, id, u, ok).conversation = <<>>

\* C20 as stated: end_session answers a null summary, and stores none, exactly
\* when the persisted transcript of the session is empty.
C20_NullSummaryIffEmpty ==
    [][(resp'.op = "end" /\ resp'.status = 200)
          => ((resp'.body = "null summary")
              <=> PersistedEmpty(Cur, resp'.user, resp'.id))]_vars

\* the provider was reached and knows the user the genuine token names
Verified(cred, clerk) == cred.kind = "jwt" /\ cred.genuine /\ clerk = "found"

\* C21 as stated: a request without a credential, or with a credential the
\* identity provider has not verified (also when the provider cannot be
\* reached), is answered 401, so that no handler body runs for it.
C21_Unverified401 ==
    (resp.op = "auth" /\ ~Verified(resp.credential, resp.clerk))
    => resp.status = 401

\* the fields summary/update is not to touch
SameOutsideSummary(a, b) ==
    /\ a.id = b.id
    /\ a.created_at = b.created_at
    /\ a.conversation = b.conversation
    /\ a.image_paths = b.image_paths
    /\ a.selected_image_index = b.selected_image_index
    /\ a.bgm_path = b.bgm_path

\* C22 as stated: after a successful summary/update, get(owner, id) returns the
\* same id, created_at, conversation, image_paths, selected_image_index and
\* bgm_path as it returned before the call, on the remote path and on the
\* local path.
C22_UpdateSummaryFrame ==
    [][(resp'.op = "summary_update" /\ resp'.status = 200)
          => \A ok \in BOOLEAN :
                GetDiary(Cur, resp'.id, resp'.user, ok) # None
                => /\ GetDiary(After, resp'.id, resp'.user, ok) # None
                   /\ SameOutsideSummary(GetDiary(Cur, resp'.id, resp'.user, ok),
                                         GetDiary(After, resp'.id, resp'.user, ok))]_vars

\* positions of the tags of the list that the lookup table knows
KnownAt(tags) == {i \in 1..Len(tags) : tags[i] \in DOMAIN MOOD_PROMPTS}

\* C23: the prompt of generate_bgm is the record's bgm_prompt verbatim when
\* that is non-empty; otherwise the table texts of the first at most two tags
\* the table knows, in tag order, joined by ", "; otherwise the default
\* prompt; and it is never empty.
C23_MusicPromptRule ==
    resp.op = "bgm_prompt"
    => LET tags == resp.emotion_tags
           K == KnownAt(tags)
       IN /\ resp.music_prompt # ""
          /\ resp.bgm_prompt # "" => resp.music_prompt = resp.bgm_prompt
          /\ (resp.bgm_prompt = "" /\ K = {})
             => resp.music_prompt = DEFAULT_PROMPT
          /\ (resp.bgm_prompt = "" /\ Cardinality(K) = 1)
             => \E i \in K : resp.music_prompt = MOOD_PROMPTS[tags[i]]
          /\ (resp.bgm_prompt = "" /\ Cardinality(K) >= 2)
             => \E i, j \in K :
                   /\ i < j
                   /\ \A k \in K : k = i \/ k >= j
                   /\ resp.music_prompt
                      = MOOD_PROMPTS[tags[i]] \o ", " \o MOOD_PROMPTS[tags[j]]

\* three known tags and no bgm_prompt: the texts of the first two are joined
C23_Witness ==
    /\ resp.op = "bgm_prompt" /\ resp.bgm_prompt = ""
    /\ resp.emotion_tags = <<"pigon", "gippeum", "seulpeum">>
    /\ resp.music_prompt = MOOD_PROMPTS["pigon"] \o ", " \o MOOD_PROMPTS["gippeum"]

\* C24: get(owner, id) returns the remote row when the remote read succeeds
\* and finds a row of (id, owner); otherwise it returns the owner's local copy,
\* and not-found only when there is no local copy either.
C24_GetRemoteThenLocal ==
    /\ \A u \in Owners, id \in Ids, ok \in BOOLEAN :
          IF ok /\ remote[id] # None /\ remote[id].user_id = u
          THEN GetDiary(Cur, id, u, ok) = remote[id].entry
          ELSE GetDiary(Cur, id, u, ok) = local[u][id]
    /\ resp.op = "get"
       => /\ resp.body = "remote"
             => (remote[resp.id] # None /\ remote[resp.id].user_id = resp.user)
          /\ resp.body = "local" => local[resp.user][resp.id] # None
          /\ resp.status = 404 => local[resp.user][resp.id] = None

\* get was answered from the local copy while the remote store holds a
\* different row of the same owner and id (the remote read failed)
C24_Witness ==
    /\ resp.op = "get" /\ resp.status = 200 /\ resp.body = "local"
    /\ remote[resp.id] # None
    /\ remote[resp.id].user_id = resp.user
    /\ remote[resp.id].entry # local[resp.user][resp.id]

\* C25: save(record, owner) leaves the owner's local copy equal to the saved
\* record whether or not the remote write succeeds; a failed remote write
\* changes nothing else and the enclosing request still completes.
C25_SaveKeepsLocal ==
    /\ \A u \in Owners, id \in StorePool, okr \in BOOLEAN, ok \in BOOLEAN :
          LET cur == GetDiary(Cur, id, u, okr)
              d == [cur EXCEPT !.summary = "saved"]
              st == SaveDiary(Cur, d, u, ok)
          IN cur # None
             => /\ st.loc[u][id] = d
                /\ \A o \in Owners \ {u} : st.loc[o] = local[o]
                /\ ~ok => st.rem = remote
    /\ (resp.op = "chat" /\ resp.status = 200)
       => /\ local[resp.user][resp.id] # None
          /\ Len(local[resp.user][resp.id].conversation) >= 1
          /\ LET c == local[resp.user][resp.id].conversation
             IN c[Len(c)].role = "model"

\* a chat was answered normally although its remote writes failed: the local
\* copy holds both turns, the remote row holds neither
C25_Witness ==
    /\ resp.op = "chat" /\ resp.status = 200
    /\ local[resp.user][resp.id] # None
    /\ remote[resp.id] # None
    /\ remote[resp.id].user_id = resp.user
    /\ Len(local[resp.user][resp.id].conversation)
       = Len(remote[resp.id].entry.conversation) + 2

\* C26 as stated: count_complete(owner, date) is the number of records that
\* get(owner, .) returns whose id encodes the date and whose summary is
\* non-null.
C26_CountMatchesGet ==
    \A u \in Owners, d \in Dates, ok \in BOOLEAN :
        CountDiariesByDate(Cur, u, d)
        = Cardinality({id \in Ids : /\ IdDate(id) = d
                                    /\ GetDiary(Cur, id, u, ok) # None
                                    /\ GetDiary(Cur, id, u, ok).summary # Null})

\* the stored transcript of the session of SpecConc, as get returns it
ConcTranscript ==
    LET d == GetDiary(Cur, ConcSession, ConcOwner, TRUE)
    IN IF d = None THEN <<>> ELSE d.conversation

Finished(r) == r \in Arrived /\ inflight[At(r)].pc = "done"

\* i arrived before j while i was still in flight
InFlightTogether(i, j) == i \in inflight[At(j)].seen

\* both turns of request i are stored before both turns of request j
TurnsInOrder(c, i, j) ==
    \E a, b, e, f \in 1..Len(c) :
        /\ a < b /\ b < e /\ e < f
        /\ c[a] = ChatMessage("user", ConcText(i))
        /\ c[b] = ChatMessage("model", ConcAnswer(i))
        /\ c[e] = ChatMessage("user", ConcText(j))
        /\ c[f] = ChatMessage("model", ConcAnswer(j))

\* C27 as stated: when chat requests for one session are in flight together,
\* the stored transcript holds the user turn and the model turn of the request
\* that arrived earlier before the turns of the later one, and no turn of
\* either is lost.
C27_ArrivalOrder ==
    \A i, j \in 1..MaxInflight :
        (Finished(i) /\ Finished(j) /\ InFlightTogether(i, j))
        => TurnsInOrder(ConcTranscript, i, j)

HoldsForeignTurn(history, u) ==
    \E i \in 1..Len(history), o \in Owners \ {u} :
        history[i] = ChatMessage("user", OwnerText(o))

\* C29 as stated: the history from which a caller's chat reply or end_session
\* summary is produced holds no turn that a different owner sent under the
\* same session id.
C29_NoForeignHistory ==
    [][/\ (resp'.op = "chat" /\ resp'.status = 200)
          => ~HoldsForeignTurn(sessions'[resp'.id], resp'.user)
       /\ (resp'.op = "end" /\ resp'.status = 200 /\ resp'.body = "ok")
          => ~HoldsForeignTurn(sessions[resp'.id], resp'.user)]_vars

\* the number of turns of a transcript that equal m
Occurrences(c, m) == Cardinality({i \in 1..Len(c) : c[i] = m})

\* the turns of prior occur in ctx in the same order
RECURSIVE IsSubsequence(_, _)
IsSubsequence(prior, ctx) ==
    IF prior = <<>> THEN TRUE
    ELSE IF ctx = <<>> THEN FALSE
    ELSE IF Head(prior) = Head(ctx) THEN IsSubsequence(Tail(prior), Tail(ctx))
    ELSE IsSubsequence(prior, Tail(ctx))

\* the transcript of (sid, u) that get returns before the call
PersistedTurns(sid, u) ==
    LET d == GetDiary(Cur, sid, u, TRUE)
    IN IF d = None THEN <<>>
       ELSE [i \in 1..Len(d.conversation) |->
                ChatMessage(d.conversation[i].role, d.conversation[i].content)]

\* C30 as stated: on every chat call the context sent to the model holds the
\* turns persisted before the call in transcript order and holds the new
\* user message exactly once more than they do.
C30_ContextOnce ==
    [][(resp'.op = "chat" /\ resp'.status = 200)
       => LET u == resp'.user
              sid == resp'.id
              ctx == SubSeq(sessions'[sid], 1, Len(sessions'[sid]) - 1)
              prior == PersistedTurns(sid, u)
              m == ChatMessage("user", OwnerText(u))
          IN /\ IsSubsequence(prior, ctx)
             /\ Occurrences(ctx, m) = Occurrences(prior, m) + 1]_vars

====
